---- MODULE Spec2Model ----
(***************************************************************************)
(* Model of the Bank Data Catalog text-to-Cypher services:                 *)
(*   src/backend_api.py   FastAPI endpoints (ask, raw query, lineage)      *)
(*   src/src/agent.py     generate_lineage_response                        *)
(*   src/app.py           Streamlit execute_query, summarize_results       *)
(*   src/tests/test_queries.py   run_test_query                            *)
(*   src/src/neo4j_setup.py      ingest_json_files                         *)
(*                                                                         *)
(* Texts (queries, model replies) are sequences of tokens: a token is a    *)
(* marker, a word, or a white-space character.  Every handler is one       *)
(* action; what it does to the outside world (drivers, sessions,           *)
(* statements run, model calls) is recorded, in order, in `events`.        *)
(***************************************************************************)
EXTENDS Integers, Sequences, FiniteSets, TLC

VARIABLES
    cred,          \* OPENAI_API_KEY of the process: "none", "empty" or "set"
    backend,       \* backend_api module after import: "up" or "crashed"
    loads,         \* the graph store's LOADS_INTO relationships, <<source, target>>
    req,           \* the request handled last
    resp,          \* its response
    events,        \* what the handler did to the store and the model, in order
    content,       \* a model reply handed to the response parser
    parsed,        \* the parser's output for `content`
    env,           \* how the store and the model behaved during the request
    tasks          \* the requests the service handles at the same time, by slot

vars == <<cred, backend, loads, req, resp, events, content, parsed, env, tasks>>

(***************************************************************************)
(* Bounds of the model                                                     *)
(***************************************************************************)
MaxEdges == 3          \* LOADS_INTO relationships in the store
DepthSlack == 1        \* how far outside [MinDepth, MaxDepth] requests go
MaxQueryLen == 2       \* tokens of a raw query text
MaxAskReplyLen == 2    \* tokens of a model reply in the request pipeline
MaxRecords == 1        \* records a statement returns
MaxReplyLen == 4       \* tokens of a model reply handed to the parser
MaxNameLen == 2        \* characters of the base name of a JSON file
MaxFiles == 1          \* JSON files of one ingestion
MaxRequests == 2       \* requests the service handles at the same time

(***************************************************************************)
(* Generic helpers                                                         *)
(***************************************************************************)
Range(s) == {s[i] : i \in 1..Len(s)}

RECURSIVE SeqOfSet(_)
\* The elements of a finite set, in some fixed order (the order in which the
\* store returns its records is not specified; no property below reads it).
SeqOfSet(S) ==
    IF S = {} THEN <<>>
    ELSE LET x == CHOOSE y \in S : TRUE IN <<x>> \o SeqOfSet(S \ {x})

NoReq == [op |-> "none"]
NoResp == [status |-> 0]
NoEnv == [none |-> TRUE]

Ev(e) == [e |-> e, q |-> <<>>]
EvRun(q) == [e |-> "run", q |-> q]

(***************************************************************************)
(* Lineage: GET /api/lineage/{table_name}?depth=                           *)
(***************************************************************************)
MinDepth == 1
MaxDepth == 5

Tables == {"DEPOSIT_SUMMARY", "CUSTOMER_MASTER", "TRANSACTION_DATA", "FINAL_REPORT"}
TableInputs == Tables \cup {"NO_SUCH_TABLE"}
DepthInputs == (0 - DepthSlack)..(MaxDepth + DepthSlack)

\* depth: int = Query(default=2, ge=1, le=5)
DepthOkLoose(depth) == depth <= MaxDepth
DepthOk(depth) == depth >= MinDepth /\ depth <= MaxDepth

LineageNode(name, type) == [id |-> name, label |-> name, type |-> type]
LineageEdge(rel) == [source |-> rel[1], target |-> rel[2], type |-> "LOADS_INTO"]

\* The node at the other end of relationship rel, seen from node n.
OtherEnd(rel, n) == IF rel[1] = n THEN rel[2] ELSE rel[1]

RECURSIVE AnyDirPaths(_, _, _)
\* (t)-[:LOADS_INTO*1..k]-(related): the paths that start at n, follow
\* relationships in either direction and use no relationship twice;
\* each as <<related, relationships(path)>>, `used` being the path so far.
AnyDirPaths(n, used, k) ==
    IF k = 0 THEN {}
    ELSE UNION { LET m == OtherEnd(rel, n)
                     p == Append(used, rel)
                 IN  {<<m, p>>} \cup AnyDirPaths(m, p, k - 1)
               : rel \in {r \in loads \ Range(used) : r[1] = n \/ r[2] = n} }

RECURSIVE InwardPaths(_, _, _)
\* (related)-[:LOADS_INTO*1..k]->(t): the directed paths that end at n; the
\* path starts at `related`, so its relationships are listed from there.
InwardPaths(n, used, k) ==
    IF k = 0 THEN {}
    ELSE UNION { LET p == <<rel>> \o used
                 IN  {<<rel[1], p>>} \cup InwardPaths(rel[1], p, k - 1)
               : rel \in {r \in loads \ Range(used) : r[2] = n} }

RECURSIVE OutwardPaths(_, _, _)
OutwardPaths(n, used, k) ==
    IF k = 0 THEN {}
    ELSE UNION { LET p == Append(used, rel)
                 IN  {<<rel[2], p>>} \cup OutwardPaths(rel[2], p, k - 1)
               : rel \in {r \in loads \ Range(used) : r[1] = n} }

\* The traversal returning only the paths of exactly `depth` relationships.
LineageRowsFullLength(table_name, depth) ==
    {r \in AnyDirPaths(table_name, <<>>, depth) \cup InwardPaths(table_name, <<>>, depth) :
        Len(r[2]) = depth}

LineageRowsDownstreamOnly(table_name, depth) == OutwardPaths(table_name, <<>>, depth)
\* The records of the traversal query: UNION keeps one copy of equal rows.
LineageRows(table_name, depth) ==
    AnyDirPaths(table_name, <<>>, depth) \cup InwardPaths(table_name, <<>>, depth)

NodesSeedEmpty(table_name) == <<>>
\* nodes = {}; nodes[table_name] = LineageNode(..., type="center")
NodesSeed(table_name) == <<LineageNode(table_name, "center")>>

\* nodes[related_name] = LineageNode(..., "related") without the membership test
AddRelatedOverwrite(nodes, related_name) ==
    IF \E i \in 1..Len(nodes) : nodes[i].id = related_name
    THEN [i \in 1..Len(nodes) |->
             IF nodes[i].id = related_name THEN LineageNode(related_name, "related")
             ELSE nodes[i]]
    ELSE Append(nodes, LineageNode(related_name, "related"))

AddRelatedUnchecked(nodes, related_name) ==
    Append(nodes, LineageNode(related_name, "related"))
\* if related_name not in nodes: nodes[related_name] = LineageNode(..., "related")
AddRelated(nodes, related_name) ==
    IF \E i \in 1..Len(nodes) : nodes[i].id = related_name
    THEN nodes
    ELSE Append(nodes, LineageNode(related_name, "related"))

RECURSIVE RelsToEdges(_)
RelsToEdges(rels) ==
    IF rels = <<>> THEN <<>>
    ELSE <<LineageEdge(Head(rels))>> \o RelsToEdges(Tail(rels))

RECURSIVE DropSeen(_, _)
DropSeen(es, seen) ==
    IF es = <<>> THEN <<>>
    ELSE IF Head(es) \in seen THEN DropSeen(Tail(es), seen)
         ELSE <<Head(es)>> \o DropSeen(Tail(es), seen \cup {Head(es)})

AddEdgesDeduplicated(edges, rels) == DropSeen(edges \o RelsToEdges(rels), {})
\* for rel in rels: edges.append(LineageEdge(source, target, "LOADS_INTO"))
AddEdges(edges, rels) == edges \o RelsToEdges(rels)

RECURSIVE CollectLineage(_, _, _)
\* for record in result: ...   (rows: the records, in the order returned)
CollectLineage(rows, nodes, edges) ==
    IF rows = <<>> THEN [nodes |-> nodes, edges |-> edges]
    ELSE CollectLineage(Tail(rows),
                        AddRelated(nodes, Head(rows)[1]),
                        AddEdges(edges, Head(rows)[2]))

TraversalQuery == <<"LINEAGE_TRAVERSAL">>

\* What get_lineage answers and does.  storeOk = FALSE: session.run raises.
LineageResult(table_name, depth, storeOk) ==
    IF ~DepthOk(depth)
    THEN [resp |-> [status |-> 422], events |-> <<>>]
    ELSE IF ~storeOk
    THEN [resp |-> [status |-> 500],
          events |-> <<Ev("driver_open"), Ev("session_open"), EvRun(TraversalQuery),
                       Ev("session_close"), Ev("driver_close")>>]
    ELSE LET rows == SeqOfSet(LineageRows(table_name, depth))
             out == CollectLineage(rows, NodesSeed(table_name), <<>>)
         IN  [resp |-> [status |-> 200, nodes |-> out.nodes, edges |-> out.edges],
              events |-> <<Ev("driver_open"), Ev("session_open"), EvRun(TraversalQuery),
                           Ev("session_close"), Ev("driver_close")>>]

\* get_lineage: the whole handler
GetLineage(table_name, depth, storeOk) ==
    /\ backend = "up"
    /\ req = NoReq
    /\ req' = [op |-> "get_lineage", table_name |-> table_name, depth |-> depth]
    /\ resp' = LineageResult(table_name, depth, storeOk).resp
    /\ events' = LineageResult(table_name, depth, storeOk).events
    /\ UNCHANGED <<tasks, cred, backend, loads, content, parsed, env>>

(***************************************************************************)
(* Texts                                                                   *)
(***************************************************************************)
Texts(tokens, n) == UNION {[1..k -> tokens] : k \in 0..n}

WhiteSpace == {" ", "\n"}

RECURSIVE LStrip(_)
LStrip(t) == IF t # <<>> /\ Head(t) \in WhiteSpace THEN LStrip(Tail(t)) ELSE t

RECURSIVE RStrip(_)
RStrip(t) ==
    IF t # <<>> /\ t[Len(t)] \in WhiteSpace THEN RStrip(SubSeq(t, 1, Len(t) - 1)) ELSE t

\* str.strip()
Strip(t) == RStrip(LStrip(t))

\* str.startswith(word), for a word that is one token
StartsWith(t, word) == t # <<>> /\ Head(t) = word

(***************************************************************************)
(* Process configuration                                                   *)
(***************************************************************************)
Credentials == {"none", "empty", "set"}

\* `if not OPENAI_API_KEY`: None and "" both count as not configured
NotConfigured(c) == c \in {"none", "empty"}

\* openai_client = OpenAI(api_key=OPENAI_API_KEY): the constructor raises when
\* the key is None, which ends the import of backend_api
ImportBackend(c) == IF c = "none" THEN "crashed" ELSE "up"

\* How a call through the OpenAI client ends: a reply with content, an error
\* raised (non-success status, time-out, connection), a reply without content.
ClientOutcomes(c) == IF c = "set" THEN {"ok", "error", "no_content"} ELSE {"error"}

\* How requests.post to the model ends.
RequestsOutcomes == {"ok", "bad_status", "exception", "no_content"}

(***************************************************************************)
(* backend_api.py: the pipeline functions.  Each returns what the Python   *)
(* function returns or raises, and the events it caused.                   *)
(***************************************************************************)
SchemaQuery == <<"SCHEMA_QUERY">>

DriverScope(inner) == <<Ev("driver_open")>> \o inner \o <<Ev("driver_close")>>
\* a session that is opened and not closed
SessionScopeLeaky(inner) == <<Ev("session_open")>> \o inner

\* `with driver.session() as session:` closes the session however the body ends
SessionScope(inner) == <<Ev("session_open")>> \o inner \o <<Ev("session_close")>>

\* execute_cypher_query returning the records read before the failure
ExecuteCypherQueryPartial(cypher, storeOk, n) ==
    [raised |-> FALSE,
     records |-> n,
     events |-> DriverScope(SessionScope(<<EvRun(cypher)>>))]

\* execute_cypher_query without the exception: a failure gives an empty list
ExecuteCypherQuerySwallow(cypher, storeOk, n) ==
    [raised |-> FALSE,
     records |-> IF storeOk THEN n ELSE 0,
     events |-> DriverScope(SessionScope(<<EvRun(cypher)>>))]

\* execute_cypher_query(cypher): no check of the text precedes session.run.
\* The store returns n records, or fails after it yielded n of them; a failure
\* raises out of the record loop and the records read are dropped.
ExecuteCypherQuery(cypher, storeOk, n) ==
    [raised |-> ~storeOk,
     records |-> IF storeOk THEN n ELSE 0,
     events |-> DriverScope(SessionScope(<<EvRun(cypher)>>))]

\* generate_summary without its try / except: a failed model call propagates
GenerateSummaryUncaught(n, llm) ==
    IF n = 0
    THEN [raised |-> FALSE, summary |-> "No results found for your query.", events |-> <<>>]
    ELSE [raised |-> llm # "ok", summary |-> "summary", events |-> <<Ev("llm_call")>>]

\* generate_summary(question, results, cypher): n records; the model call ends
\* as llm.  The call is made inside try / except, so nothing is raised.
GenerateSummary(n, llm) ==
    IF n = 0
    THEN [raised |-> FALSE, summary |-> "No results found for your query.", events |-> <<>>]
    ELSE [raised |-> FALSE,
          summary |-> IF llm = "ok" THEN "summary" ELSE "Summary generation failed: ...",
          events |-> <<Ev("llm_call")>>]

\* generate_sql_from_cypher(cypher_query, question)
GenerateSqlFromCypher(llm) ==
    [sql_query |-> IF llm = "ok" THEN "sql" ELSE "sql_failed",
     events |-> <<Ev("llm_call")>>]

(***************************************************************************)
(* Response parser (generate_cypher_from_question, "Parse response")       *)
(***************************************************************************)
ExplanationMarker == "EXPLANATION:"
QueryMarker == "CYPHER:"

RECURSIVE Split(_, _)
\* str.split(sep): the pieces between the occurrences of the token sep
Split(t, sep) ==
    IF \A i \in 1..Len(t) : t[i] # sep THEN <<t>>
    ELSE LET k == CHOOSE i \in 1..Len(t) :
                     t[i] = sep /\ \A j \in 1..(i - 1) : t[j] # sep
         IN  <<SubSeq(t, 1, k - 1)>> \o Split(SubSeq(t, k + 1, Len(t)), sep)

RECURSIVE Remove(_, _)
\* str.replace(tok, "")
Remove(t, tok) ==
    IF t = <<>> THEN <<>>
    ELSE IF Head(t) = tok THEN Remove(Tail(t), tok)
         ELSE <<Head(t)>> \o Remove(Tail(t), tok)

RECURSIVE Join(_, _)
\* sep.join(pieces)
Join(pieces, sep) ==
    IF pieces = <<>> THEN <<>>
    ELSE IF Len(pieces) = 1 THEN pieces[1]
         ELSE pieces[1] \o <<sep>> \o Join(Tail(pieces), sep)

\* The tokens t for which t.upper().startswith(('MATCH', 'RETURN', 'WHERE',
\* 'WITH', 'CREATE', 'MERGE')): the test is on a prefix of the line, so a word
\* such as "Within" passes it.
KeywordPrefixed ==
    {"MATCH", "match", "RETURN", "WHERE", "WITH", "CREATE", "MERGE", "Within"}

LineStartsCypher(line) ==
    LET l == Strip(line) IN l # <<>> /\ Head(l) \in KeywordPrefixed

\* The fallback loop: the lines from the first keyword line to the end.
CypherLines(lines) ==
    IF \A i \in 1..Len(lines) : ~LineStartsCypher(lines[i]) THEN <<>>
    ELSE LET k == CHOOSE i \in 1..Len(lines) :
                     LineStartsCypher(lines[i])
                     /\ \A j \in 1..(i - 1) : ~LineStartsCypher(lines[j])
         IN  SubSeq(lines, k, Len(lines))

\* content -> (explanation, cypher_query)
ParseReply(c) ==
    IF ExplanationMarker \in Range(c) /\ QueryMarker \in Range(c)
    THEN LET parts == Split(c, QueryMarker)
         IN  [explanation |-> Strip(Remove(parts[1], ExplanationMarker)),
              cypher_query |-> Strip(parts[2]),
              path |-> "markers"]
    ELSE [explanation |-> <<"Generated Cypher query for your question.">>,
          cypher_query |-> Strip(Join(CypherLines(Split(c, "\n")), "\n")),
          path |-> "fallback"]

\* generate_cypher_from_question calling the model inside the schema session
GenerateCypherFromQuestionHeld(schemaOk, llm, reply) ==
    IF ~schemaOk
    THEN [raised |-> TRUE, explanation |-> <<>>, cypher_query |-> <<>>,
          events |-> DriverScope(SessionScope(<<EvRun(SchemaQuery)>>))]
    ELSE IF llm # "ok"
    THEN [raised |-> TRUE, explanation |-> <<>>, cypher_query |-> <<>>,
          events |-> DriverScope(SessionScope(<<EvRun(SchemaQuery), Ev("llm_call")>>))]
    ELSE LET g == ParseReply(reply)
         IN  [raised |-> FALSE, explanation |-> g.explanation,
              cypher_query |-> g.cypher_query,
              events |-> DriverScope(SessionScope(<<EvRun(SchemaQuery), Ev("llm_call")>>))]

\* generate_cypher_from_question(question): the schema session is closed
\* (end of the with block) before the model is called
GenerateCypherFromQuestion(schemaOk, llm, reply) ==
    IF ~schemaOk
    THEN [raised |-> TRUE, explanation |-> <<>>, cypher_query |-> <<>>,
          events |-> DriverScope(SessionScope(<<EvRun(SchemaQuery)>>))]
    ELSE IF llm # "ok"
    THEN [raised |-> TRUE, explanation |-> <<>>, cypher_query |-> <<>>,
          events |-> DriverScope(SessionScope(<<EvRun(SchemaQuery)>>) \o <<Ev("llm_call")>>)]
    ELSE LET g == ParseReply(reply)
         IN  [raised |-> FALSE, explanation |-> g.explanation,
              cypher_query |-> g.cypher_query,
              events |-> DriverScope(SessionScope(<<EvRun(SchemaQuery)>>) \o <<Ev("llm_call")>>)]

Question == "Show lineage for the DEPOSIT_SUMMARY table."

\* `if not cypher_query` of ask_question, never true
NoQueryNever(cypher_query) == FALSE

\* `if not cypher_query` of ask_question
NoQuery(cypher_query) == cypher_query = <<>>

\* What ask_question answers and does.
AskResult(schemaOk, llm, reply, storeOk, n, llmSql, llmSum) ==
    LET g == GenerateCypherFromQuestion(schemaOk, llm, reply)
        x == ExecuteCypherQuery(g.cypher_query, storeOk, n)
        q == GenerateSqlFromCypher(llmSql)
        m == GenerateSummary(x.records, llmSum)
    IN  IF g.raised
        THEN [events |-> g.events,
              resp |-> [status |-> 500, detail |-> "query_execution_failed"]]
        ELSE IF NoQuery(g.cypher_query)
        THEN [events |-> g.events,
              resp |-> [status |-> 500, detail |-> "failed_to_generate"]]
        ELSE IF x.raised
        THEN [events |-> g.events \o x.events,
              resp |-> [status |-> 500, detail |-> "query_execution_failed"]]
        ELSE IF m.raised
        THEN [events |-> g.events \o x.events \o q.events \o m.events,
              resp |-> [status |-> 500, detail |-> "query_execution_failed"]]
        ELSE [events |-> g.events \o x.events \o q.events \o m.events,
              resp |-> [status |-> 200, explanation |-> g.explanation,
                        cypher_query |-> g.cypher_query, sql_query |-> q.sql_query,
                        results |-> x.records, summary |-> m.summary]]

\* ask_question: POST /api/ask
AskQuestion(schemaOk, llm, reply, storeOk, n, llmSql, llmSum) ==
    /\ backend = "up"
    /\ req = NoReq
    /\ req' = [op |-> "ask_question", question |-> Question]
    /\ env' = [schemaOk |-> schemaOk, llm |-> llm, storeOk |-> storeOk, n |-> n,
               llmSql |-> llmSql, llmSum |-> llmSum]
    /\ content' = IF schemaOk /\ llm = "ok" THEN reply ELSE <<>>
    /\ parsed' = IF schemaOk /\ llm = "ok" THEN ParseReply(reply) ELSE NoResp
    /\ resp' = AskResult(schemaOk, llm, reply, storeOk, n, llmSql, llmSum).resp
    /\ events' = AskResult(schemaOk, llm, reply, storeOk, n, llmSql, llmSum).events
    /\ UNCHANGED <<tasks, cred, backend, loads>>

\* generate_summary called on its own
CallGenerateSummary(n, llm) ==
    /\ backend = "up"
    /\ req = NoReq
    /\ req' = [op |-> "generate_summary", results |-> n]
    /\ env' = [llmSum |-> llm]
    /\ LET m == GenerateSummary(n, llm)
       IN  /\ events' = m.events
           /\ resp' = IF m.raised THEN [status |-> 500]
                      ELSE [status |-> 200, summary |-> m.summary]
    /\ UNCHANGED <<tasks, cred, backend, loads, content, parsed>>

(***************************************************************************)
(* agent.py, app.py and tests/test_queries.py                              *)
(***************************************************************************)
\* str(resp) of a reply that lacks choices[0].message.content
StrOfResp == <<"{'error': ...}">>

\* generate_lineage_response that goes on after a failed model request
GenerateLineageResponseNoReturn(c, llm, reply, storeOk, n) ==
    IF NotConfigured(c)
    THEN [explanation |-> "cred_missing", cypher |-> <<>>, events |-> <<>>]
    ELSE LET generated_cypher == IF llm = "ok" THEN Strip(reply) ELSE StrOfResp
         IN  [explanation |-> "executed", cypher |-> generated_cypher, records |-> n,
              events |-> <<Ev("llm_call")>>
                         \o DriverScope(SessionScope(<<EvRun(generated_cypher)>>))]

\* generate_lineage_response(question) -> (explanation, cypher)
GenerateLineageResponse(c, llm, reply, storeOk, n) ==
    IF NotConfigured(c)
    THEN [explanation |-> "cred_missing", cypher |-> <<>>, events |-> <<>>]
    ELSE IF llm \in {"bad_status", "exception"}
    THEN [explanation |-> "request_failed", cypher |-> <<>>,
          events |-> <<Ev("llm_call")>>]
    ELSE LET generated_cypher == IF llm = "ok" THEN Strip(reply) ELSE StrOfResp
         IN  IF storeOk
             THEN [explanation |-> "executed", cypher |-> generated_cypher, records |-> n,
                   events |-> <<Ev("llm_call")>>
                              \o DriverScope(SessionScope(<<EvRun(generated_cypher)>>))]
             ELSE [explanation |-> "exec_error", cypher |-> generated_cypher,
                   events |-> <<Ev("llm_call"), Ev("driver_open")>>
                              \o SessionScope(<<EvRun(generated_cypher)>>)]

\* The reply the agent received, when the model was called and replied.
AgentContent(c, llm, reply) == IF ~NotConfigured(c) /\ llm = "ok" THEN reply ELSE <<>>

\* main.py / tests: the question is answered by generate_lineage_response alone
AnswerQuestion(llm, reply, storeOk, n) ==
    /\ req = NoReq
    /\ req' = [op |-> "generate_lineage_response", question |-> Question]
    /\ env' = [llm |-> llm, storeOk |-> storeOk, n |-> n]
    /\ content' = AgentContent(cred, llm, reply)
    /\ LET a == GenerateLineageResponse(cred, llm, reply, storeOk, n)
       IN  /\ events' = a.events
           /\ resp' = [status |-> 200, explanation |-> a.explanation, cypher |-> a.cypher]
    /\ UNCHANGED <<tasks, cred, backend, loads, parsed>>

\* tests/test_queries.py run_test_query(setup, question, query_num): the
\* driver of `setup` is opened once by main, before the first question.
RunTestQuery(llm, reply, storeOk1, n1, storeOk2, n2) ==
    /\ req = NoReq
    /\ req' = [op |-> "run_test_query", question |-> Question]
    /\ env' = [llm |-> llm, storeOk |-> storeOk1, n |-> n1,
               storeOk2 |-> storeOk2, n2 |-> n2]
    /\ content' = AgentContent(cred, llm, reply)
    /\ LET a == GenerateLineageResponse(cred, llm, reply, storeOk1, n1)
       IN  IF \/ a.cypher = <<>> \/ Strip(a.cypher) = <<>>
              \/ StartsWith(a.cypher, "Error") \/ StartsWith(a.cypher, "OPENAI")
           THEN /\ events' = a.events
                /\ resp' = [status |-> 200, printed |-> "explanation",
                            explanation |-> a.explanation, cypher |-> a.cypher, records |-> 0]
           ELSE IF ~storeOk2
           THEN /\ events' = a.events \o SessionScope(<<EvRun(a.cypher)>>)
                /\ resp' = [status |-> 200, printed |-> "error",
                            explanation |-> a.explanation, cypher |-> a.cypher, records |-> 0]
           ELSE /\ events' = a.events \o SessionScope(<<EvRun(a.cypher)>>)
                /\ resp' = [status |-> 200, printed |-> "results",
                            explanation |-> a.explanation, cypher |-> a.cypher, records |-> n2]
    /\ UNCHANGED <<tasks, cred, backend, loads, parsed>>

\* summarize_results without the empty-result return
SummarizeResultsNoFastPath(c, n, llm) ==
    IF NotConfigured(c)
    THEN [summary |-> "OpenAI API key not configured. Cannot generate summary.",
          events |-> <<>>]
    ELSE [summary |-> IF llm = "ok" THEN "summary" ELSE "Error generating summary: ...",
          events |-> <<Ev("llm_call")>>]

\* app.py summarize_results(question, results, cypher_query): n records
SummarizeResults(c, n, llm) ==
    IF NotConfigured(c)
    THEN [summary |-> "OpenAI API key not configured. Cannot generate summary.",
          events |-> <<>>]
    ELSE IF n = 0
    THEN [summary |-> "No results found for this query.", events |-> <<>>]
    ELSE [summary |-> IF llm = "ok" THEN "summary" ELSE "Error generating summary: ...",
          events |-> <<Ev("llm_call")>>]

\* app.py execute_query(question) -> (cypher, explanation, error, records)
ExecuteQuery(c, llm, reply, storeOk1, n1, storeOk2, n2) ==
    LET a == GenerateLineageResponse(c, llm, reply, storeOk1, n1)
    IN  IF a.cypher = <<>> \/ StartsWith(a.cypher, "Error") \/ StartsWith(a.cypher, "OPENAI")
        THEN [cypher |-> <<>>, explanation |-> "none", error |-> a.explanation,
              records |-> 0, events |-> DriverScope(a.events)]
        ELSE IF ~storeOk2
        THEN [cypher |-> <<>>, explanation |-> "none", error |-> "error_executing_query",
              records |-> 0,
              events |-> DriverScope(a.events \o SessionScope(<<EvRun(a.cypher)>>))]
        ELSE [cypher |-> a.cypher, explanation |-> a.explanation, error |-> "none",
              records |-> n2,
              events |-> DriverScope(a.events \o SessionScope(<<EvRun(a.cypher)>>))]

\* app.py, the Execute Query button: execute_query, then the error or the
\* summary of the records
ExecuteButton(llm, reply, storeOk1, n1, storeOk2, n2, llmSum) ==
    /\ req = NoReq
    /\ req' = [op |-> "execute_query", question |-> Question]
    /\ env' = [llm |-> llm, storeOk |-> storeOk1, n |-> n1,
               storeOk2 |-> storeOk2, n2 |-> n2, llmSum |-> llmSum]
    /\ content' = AgentContent(cred, llm, reply)
    /\ LET x == ExecuteQuery(cred, llm, reply, storeOk1, n1, storeOk2, n2)
           m == SummarizeResults(cred, x.records, llmSum)
       IN  IF x.error # "none"
           THEN /\ events' = x.events
                /\ resp' = [status |-> 200, cypher |-> x.cypher,
                            explanation |-> x.explanation, error |-> x.error,
                            records |-> x.records, summary |-> "none"]
           ELSE /\ events' = x.events \o m.events
                /\ resp' = [status |-> 200, cypher |-> x.cypher,
                            explanation |-> x.explanation, error |-> x.error,
                            records |-> x.records, summary |-> m.summary]
    /\ UNCHANGED <<tasks, cred, backend, loads, parsed>>

\* summarize_results called on its own
CallSummarizeResults(n, llm) ==
    /\ req = NoReq
    /\ req' = [op |-> "summarize_results", results |-> n]
    /\ env' = [llmSum |-> llm]
    /\ LET m == SummarizeResults(cred, n, llm)
       IN  /\ events' = m.events
           /\ resp' = [status |-> 200, summary |-> m.summary]
    /\ UNCHANGED <<tasks, cred, backend, loads, content, parsed>>

(***************************************************************************)
(* neo4j_setup.py: ingest_json_files.  A file name is a sequence of        *)
(* characters.                                                             *)
(***************************************************************************)
NameChars == {"a", "S", "_", "-"}

\* The base names of the JSON files (os.path.splitext(os.path.basename(fp))[0])
FileNames == UNION {[1..k -> NameChars] : k \in 1..MaxNameLen}

\* What a file holds: unreadable or not JSON, an empty array, objects with a
\* key ending in _id (or the key id), objects without one.
FileKinds == {"unreadable", "empty", "id_key", "no_id"}

UpperChar(ch) == IF ch = "a" THEN "A" ELSE ch
LowerChar(ch) == IF ch = "S" THEN "s" ELSE ch

\* str.capitalize(): the first character upper-cased, the others lower-cased
Capitalize(name) ==
    [i \in 1..Len(name) |-> IF i = 1 THEN UpperChar(name[i]) ELSE LowerChar(name[i])]

\* label = raw_label[:-1] if raw_label.endswith('s') else raw_label
LabelOf(name) ==
    LET raw_label == Capitalize(name)
    IN  IF raw_label[Len(raw_label)] = "s"
        THEN SubSeq(raw_label, 1, Len(raw_label) - 1)
        ELSE raw_label

\* The node statement of one file: the label is put into the text as it is.
NodeQuery(label, kind) ==
    IF kind = "id_key"
    THEN <<"UNWIND $rows AS row MERGE (n:">> \o label \o <<" { id: row.id }) SET n += row">>
    ELSE <<"UNWIND $rows AS row CREATE (n:">> \o label \o <<") SET n += row">>

RECURSIVE NodeRuns(_)
\* for fp in files: one statement per file that could be read and is not empty
NodeRuns(files) ==
    IF files = <<>> THEN <<>>
    ELSE LET f == Head(files)
         IN  (IF f.kind \in {"unreadable", "empty"} THEN <<>>
              ELSE <<EvRun(NodeQuery(LabelOf(f.name), f.kind))>>)
             \o NodeRuns(Tail(files))

\* (source_label, target_label, relationship_type) of relationship_mappings
RelationshipMappings ==
    << <<"Client", "Bank_account", "HAS_ACCOUNT">>,
       <<"Client", "Card_detail", "HAS_CARD">>,
       <<"Client", "Loan_record", "HAS_LOAN">>,
       <<"Client", "Customer_support", "SUBMITTED_TICKET">>,
       <<"Card_detail", "Card_transaction", "HAS_TRANSACTION">>,
       <<"Bank_account", "Online_transaction", "HAS_TRANSACTION">>,
       <<"Branche", "Employee", "HAS_EMPLOYEE">>,
       <<"Account_type", "Bank_account", "APPLIES_TO">> >>

RelationshipQuery(m) ==
    <<"MATCH (a:", m[1], "), (b:", m[2], ") MERGE (a)-[:", m[3], "]->(b)">>

RelationshipRuns ==
    [i \in 1..Len(RelationshipMappings) |-> EvRun(RelationshipQuery(RelationshipMappings[i]))]

\* Neo4jSetup.ingest_json_files(file_list=files): every failure of a file or
\* of a statement is caught and printed
IngestJsonFiles(files) ==
    /\ req = NoReq
    /\ req' = [op |-> "ingest_json_files", files |-> files]
    /\ env' = [ingested |-> Len(NodeRuns(files))]
    /\ events' = IF files = <<>> THEN <<>>
                 ELSE SessionScope(NodeRuns(files) \o RelationshipRuns)
    /\ resp' = [status |-> 200]
    /\ UNCHANGED <<tasks, cred, backend, loads, content, parsed>>

\* What run_cypher answers and does.
RunCypherResult(cypher, storeOk, n) ==
    LET x == ExecuteCypherQuery(cypher, storeOk, n)
    IN  [events |-> x.events,
         resp |-> IF x.raised
                  THEN [status |-> 500, detail |-> "cypher_execution_failed"]
                  ELSE [status |-> 200, success |-> TRUE,
                        results |-> x.records, count |-> x.records]]

\* run_cypher: POST /api/query/cypher
RunCypher(cypher, storeOk, n) ==
    /\ backend = "up"
    /\ req = NoReq
    /\ req' = [op |-> "run_cypher", cypher |-> cypher]
    /\ env' = [storeOk |-> storeOk, n |-> n]
    /\ events' = RunCypherResult(cypher, storeOk, n).events
    /\ resp' = RunCypherResult(cypher, storeOk, n).resp
    /\ UNCHANGED <<tasks, cred, backend, loads, content, parsed>>

\* The server takes the next request once the response has been sent.
AwaitRequest ==
    /\ req # NoReq
    /\ req' = NoReq
    /\ resp' = NoResp
    /\ events' = <<>>
    /\ env' = NoEnv
    /\ content' = <<>>
    /\ parsed' = NoResp
    /\ UNCHANGED <<tasks, cred, backend, loads>>

QueryTokens == {"MATCH", "n", "DELETE", "set", "offset"}
Queries == Texts(QueryTokens, MaxQueryLen)

\* The file lists of an ingestion: a name and what the file holds.
FileLists ==
    UNION {[1..k -> [name : FileNames, kind : FileKinds]] : k \in 0..MaxFiles}

ReplyTokens ==
    {"EXPLANATION:", "CYPHER:", "MATCH", "CREATE", "Within", "prose", " ", "\n"}
AskReplies == Texts(ReplyTokens, MaxAskReplyLen)

Init ==
    /\ cred \in Credentials
    /\ backend = ImportBackend(cred)
    /\ loads = {}
    /\ req = NoReq
    /\ resp = NoResp
    /\ events = <<>>
    /\ content = <<>>
    /\ parsed = NoResp
    /\ env = NoEnv
    /\ tasks = <<>>

\* A request is taken only when none is in progress (the guard of every
\* handler, stated first so that no input is drawn while one is in progress).
Next ==
    \/ /\ req = NoReq
       /\ \E cypher \in Queries, storeOk \in BOOLEAN, n \in 0..MaxRecords :
             RunCypher(cypher, storeOk, n)
    \/ /\ req = NoReq
       /\ \E schemaOk \in BOOLEAN, llm \in ClientOutcomes(cred), reply \in AskReplies,
             storeOk \in BOOLEAN, n \in 0..MaxRecords,
             llmSql \in ClientOutcomes(cred), llmSum \in ClientOutcomes(cred) :
             AskQuestion(schemaOk, llm, reply, storeOk, n, llmSql, llmSum)
    \/ /\ req = NoReq
       /\ \E llm \in RequestsOutcomes, reply \in AskReplies,
             storeOk \in BOOLEAN, n \in 0..MaxRecords :
             AnswerQuestion(llm, reply, storeOk, n)
    \/ /\ req = NoReq
       /\ \E llm \in RequestsOutcomes, reply \in AskReplies,
             storeOk1 \in BOOLEAN, n1 \in 0..MaxRecords,
             storeOk2 \in BOOLEAN, n2 \in 0..MaxRecords :
             RunTestQuery(llm, reply, storeOk1, n1, storeOk2, n2)
    \/ /\ req = NoReq
       /\ \E llm \in RequestsOutcomes, reply \in AskReplies,
             storeOk1 \in BOOLEAN, n1 \in 0..MaxRecords,
             storeOk2 \in BOOLEAN, n2 \in 0..MaxRecords, llmSum \in RequestsOutcomes :
             ExecuteButton(llm, reply, storeOk1, n1, storeOk2, n2, llmSum)
    \/ /\ req = NoReq
       /\ \E n \in 0..MaxRecords, llm \in ClientOutcomes(cred) : CallGenerateSummary(n, llm)
    \/ /\ req = NoReq
       /\ \E n \in 0..MaxRecords, llm \in RequestsOutcomes : CallSummarizeResults(n, llm)
    \/ /\ req = NoReq
       /\ \E files \in FileLists : IngestJsonFiles(files)
    \/ AwaitRequest

Spec == Init /\ [][Next]_vars

\* The store of the DEPOSIT_SUMMARY scenario.
ScenarioGraph ==
    { <<"CUSTOMER_MASTER", "DEPOSIT_SUMMARY">>,
      <<"TRANSACTION_DATA", "DEPOSIT_SUMMARY">>,
      <<"DEPOSIT_SUMMARY", "FINAL_REPORT">> }

Graphs == {g \in SUBSET (Tables \X Tables) : Cardinality(g) <= MaxEdges}

InitLineage ==
    /\ cred = "set"
    /\ backend = "up"
    /\ loads \in Graphs
    /\ req = NoReq
    /\ resp = NoResp
    /\ events = <<>>
    /\ content = <<>>
    /\ parsed = NoResp
    /\ env = NoEnv
    /\ tasks = <<>>

NextLineage ==
    \/ \E table_name \in TableInputs, depth \in DepthInputs, storeOk \in BOOLEAN :
          GetLineage(table_name, depth, storeOk)
    \/ AwaitRequest

SpecLineage == InitLineage /\ [][NextLineage]_vars

\* The parser alone, on every reply of up to MaxReplyLen tokens.
Parse ==
    /\ parsed = NoResp
    /\ parsed' = ParseReply(content)
    /\ UNCHANGED <<tasks, cred, backend, loads, req, resp, events, content, env>>

InitParse ==
    /\ cred = "set"
    /\ backend = "up"
    /\ loads = {}
    /\ req = NoReq
    /\ resp = NoResp
    /\ events = <<>>
    /\ content \in Texts(ReplyTokens, MaxReplyLen)
    /\ parsed = NoResp
    /\ env = NoEnv
    /\ tasks = <<>>

NextParse == Parse

SpecParse == InitParse /\ [][NextParse]_vars

(***************************************************************************)
(* The service handling several requests at the same time.  A request is   *)
(* a task with its own local variables; the tasks are interleaved between  *)
(* the calls a handler makes (synthesis, execution, summary; traversal,    *)
(* record loop).  The module state they share (app, openai_client, the     *)
(* connection settings) is never assigned after import.                    *)
(***************************************************************************)
Slots == 1..MaxRequests

IdleTask == [pc |-> "idle"]

SampleReplies == {<<"EXPLANATION:", "prose", "CYPHER:", "MATCH">>, <<"MATCH", " ", "n">>, <<"prose">>}
SampleQueries == {<<"MATCH">>, <<"DELETE", "n">>}
SampleTables == {"DEPOSIT_SUMMARY", "CUSTOMER_MASTER"}
SampleDepths == {1, 2, 6}

\* The requests a client sends.
ConcurrentRequests ==
    {[op |-> "ask_question", question |-> Question]}
    \cup {[op |-> "run_cypher", cypher |-> c] : c \in SampleQueries}
    \cup {[op |-> "get_lineage", table_name |-> t, depth |-> d] :
             t \in SampleTables, d \in SampleDepths}

\* The environment of a task before any of it was consumed.
NoInputs ==
    [schemaOk |-> TRUE, llm |-> "ok", reply |-> <<>>, storeOk |-> TRUE, n |-> 0,
     llmSql |-> "ok", llmSum |-> "ok"]

Done(ts, s, response) == [ts EXCEPT ![s].pc = "done", ![s].resp = response]

\* The generated query of a task, taken from the variables of another task.
SharedQuery(ts, s) ==
    IF \E t \in Slots \ {s} : ts[t].pc # "idle" /\ ts[t].cypher_query # <<>>
    THEN ts[CHOOSE t \in Slots \ {s} :
                ts[t].pc # "idle" /\ ts[t].cypher_query # <<>>].cypher_query
    ELSE ts[s].cypher_query

\* cypher_query, a local variable of ask_question
OwnQuery(ts, s) == ts[s].cypher_query

\* The request reaches its handler.
Receive(s, r) ==
    /\ backend = "up"
    /\ tasks[s].pc = "idle"
    /\ tasks' = [tasks EXCEPT ![s] =
                    [pc |-> "received", req |-> r, inp |-> NoInputs, resp |-> NoResp,
                     explanation |-> <<>>, cypher_query |-> <<>>, results |-> 0,
                     rows |-> <<>>]]
    /\ UNCHANGED <<cred, backend, loads, req, resp, events, content, parsed, env>>

\* ask_question: explanation, cypher_query = generate_cypher_from_question(...)
AskSynthesize(s, schemaOk, llm, reply) ==
    /\ tasks[s].pc = "received"
    /\ tasks[s].req.op = "ask_question"
    /\ LET g == GenerateCypherFromQuestion(schemaOk, llm, reply)
           ts == [tasks EXCEPT ![s].inp.schemaOk = schemaOk,
                               ![s].inp.llm = IF schemaOk THEN llm ELSE "ok",
                               ![s].inp.reply = IF schemaOk /\ llm = "ok" THEN reply ELSE <<>>]
       IN  tasks' =
             IF g.raised
             THEN Done(ts, s, [status |-> 500, detail |-> "query_execution_failed"])
             ELSE IF NoQuery(g.cypher_query)
             THEN Done(ts, s, [status |-> 500, detail |-> "failed_to_generate"])
             ELSE [ts EXCEPT ![s].pc = "synthesized",
                             ![s].explanation = g.explanation,
                             ![s].cypher_query = g.cypher_query]
    /\ UNCHANGED <<cred, backend, loads, req, resp, events, content, parsed, env>>

\* ask_question: results = execute_cypher_query(cypher_query)
AskExecute(s, storeOk, n) ==
    /\ tasks[s].pc = "synthesized"
    /\ LET x == ExecuteCypherQuery(OwnQuery(tasks, s), storeOk, n)
           ts == [tasks EXCEPT ![s].inp.storeOk = storeOk, ![s].inp.n = n]
       IN  tasks' =
             IF x.raised
             THEN Done(ts, s, [status |-> 500, detail |-> "query_execution_failed"])
             ELSE [ts EXCEPT ![s].pc = "executed", ![s].results = x.records]
    /\ UNCHANGED <<cred, backend, loads, req, resp, events, content, parsed, env>>

\* ask_question: sql_query, summary, return QueryResponse(...)
AskSummarize(s, llmSql, llmSum) ==
    /\ tasks[s].pc = "executed"
    /\ LET q == GenerateSqlFromCypher(llmSql)
           m == GenerateSummary(tasks[s].results, llmSum)
           ts == [tasks EXCEPT ![s].inp.llmSql = llmSql,
                               ![s].inp.llmSum = IF tasks[s].results = 0 THEN "ok" ELSE llmSum]
       IN  tasks' =
             IF m.raised
             THEN Done(ts, s, [status |-> 500, detail |-> "query_execution_failed"])
             ELSE Done(ts, s, [status |-> 200, explanation |-> tasks[s].explanation,
                               cypher_query |-> OwnQuery(tasks, s),
                               sql_query |-> q.sql_query,
                               results |-> tasks[s].results, summary |-> m.summary])
    /\ UNCHANGED <<cred, backend, loads, req, resp, events, content, parsed, env>>

\* run_cypher: results = execute_cypher_query(request.cypher), return
RawExecute(s, storeOk, n) ==
    /\ tasks[s].pc = "received"
    /\ tasks[s].req.op = "run_cypher"
    /\ LET ts == [tasks EXCEPT ![s].inp.storeOk = storeOk, ![s].inp.n = n]
       IN  tasks' = Done(ts, s, RunCypherResult(tasks[s].req.cypher, storeOk, n).resp)
    /\ UNCHANGED <<cred, backend, loads, req, resp, events, content, parsed, env>>

\* get_lineage: depth validation and result = session.run(query, ...)
LineageTraverse(s, storeOk) ==
    /\ tasks[s].pc = "received"
    /\ tasks[s].req.op = "get_lineage"
    /\ LET r == tasks[s].req
           ts == [tasks EXCEPT ![s].inp.storeOk = storeOk]
       IN  tasks' =
             IF ~DepthOk(r.depth) THEN Done(ts, s, [status |-> 422])
             ELSE IF ~storeOk THEN Done(ts, s, [status |-> 500])
             ELSE [ts EXCEPT ![s].pc = "traversed",
                             ![s].rows = SeqOfSet(LineageRows(r.table_name, r.depth))]
    /\ UNCHANGED <<cred, backend, loads, req, resp, events, content, parsed, env>>

\* get_lineage: the record loop and return LineageResponse(...)
LineageCollect(s) ==
    /\ tasks[s].pc = "traversed"
    /\ LET out == CollectLineage(tasks[s].rows, NodesSeed(tasks[s].req.table_name), <<>>)
       IN  tasks' = Done(tasks, s, [status |-> 200, nodes |-> out.nodes,
                                    edges |-> out.edges])
    /\ UNCHANGED <<cred, backend, loads, req, resp, events, content, parsed, env>>

\* The response is sent; the slot takes another request.
Complete(s) ==
    /\ tasks[s].pc = "done"
    /\ tasks' = [tasks EXCEPT ![s] = IdleTask]
    /\ UNCHANGED <<cred, backend, loads, req, resp, events, content, parsed, env>>

InitConcurrent ==
    /\ cred = "set"
    /\ backend = "up"
    /\ loads = ScenarioGraph
    /\ req = NoReq
    /\ resp = NoResp
    /\ events = <<>>
    /\ content = <<>>
    /\ parsed = NoResp
    /\ env = NoEnv
    /\ tasks = [s \in Slots |-> IdleTask]

NextConcurrent ==
    \E s \in Slots :
        \/ \E r \in ConcurrentRequests : Receive(s, r)
        \/ /\ tasks[s].pc = "received"
           /\ \E schemaOk \in BOOLEAN, llm \in {"ok", "error"}, reply \in SampleReplies :
                 AskSynthesize(s, schemaOk, llm, reply)
        \/ \E storeOk \in BOOLEAN, n \in 0..MaxRecords : AskExecute(s, storeOk, n)
        \/ \E llmSql \in {"ok", "error"}, llmSum \in {"ok", "error"} :
              AskSummarize(s, llmSql, llmSum)
        \/ \E storeOk \in BOOLEAN, n \in 0..MaxRecords : RawExecute(s, storeOk, n)
        \/ \E storeOk \in BOOLEAN : LineageTraverse(s, storeOk)
        \/ LineageCollect(s)
        \/ Complete(s)

SpecConcurrent == InitConcurrent /\ [][NextConcurrent]_vars

(***************************************************************************)
(* Lineage claims                                                          *)
(***************************************************************************)
LineageDone == req.op = "get_lineage"
LineageOk == LineageDone /\ resp.status = 200
NodeIds == {resp.nodes[i].id : i \in 1..Len(resp.nodes)}

\* C5: a lineage request whose depth is outside [1,5] (0 and negative values
\* included) is rejected, and no driver, session or traversal query is made
\* for it.
C5_DepthOutsideRangeRejected ==
    (LineageDone /\ ~(req.depth \in 1..5))
        => (resp.status = 422 /\ events = <<>>)

C5_Witness ==
    LineageDone /\ req.depth \in {0, 6} /\ resp.status = 422 /\ loads # {}

\* C6: every lineage response holds a node whose id is the requested
\* table_name, also when the traversal returned no path at all.
C6_CenterAlwaysPresent ==
    LineageOk => \E i \in 1..Len(resp.nodes) : resp.nodes[i].id = req.table_name

C6_Witness ==
    /\ LineageOk
    /\ LineageRows(req.table_name, req.depth) = {}
    /\ Len(resp.nodes) = 1
    /\ resp.edges = <<>>

\* C7: no two nodes of a lineage response have the same id, however many
\* returned paths reach the same table.
C7_NodeIdsUnique ==
    LineageOk =>
        \A i, j \in 1..Len(resp.nodes) :
            resp.nodes[i].id = resp.nodes[j].id => i = j

C7_Witness ==
    /\ LineageOk
    /\ \E r1, r2 \in LineageRows(req.table_name, req.depth) :
           r1 # r2 /\ r1[1] = r2[1]
    /\ Len(resp.nodes) >= 2

\* How often the relationship `pair` occurs on the path `rels`.
Occurrences(rels, pair) == Cardinality({i \in 1..Len(rels) : rels[i] = pair})

RECURSIVE TotalOccurrences(_, _)
TotalOccurrences(rows, pair) ==
    IF rows = {} THEN 0
    ELSE LET r == CHOOSE x \in rows : TRUE
         IN  Occurrences(r[2], pair) + TotalOccurrences(rows \ {r}, pair)

EdgeCopies(pair) ==
    Cardinality({i \in 1..Len(resp.edges) :
                    resp.edges[i].source = pair[1] /\ resp.edges[i].target = pair[2]})

\* C8: the edge list holds one record for every edge of every returned path,
\* without de-duplication: a (source,target) pair that lies on k returned
\* paths appears k times.
C8_OneEdgePerPathEdge ==
    LineageOk =>
        \A pair \in Tables \X Tables :
            EdgeCopies(pair) = TotalOccurrences(LineageRows(req.table_name, req.depth), pair)

C8_Witness ==
    /\ LineageOk
    /\ \E pair \in Tables \X Tables :
          /\ EdgeCopies(pair) >= 2
          /\ \E r1, r2 \in LineageRows(req.table_name, req.depth) :
                r1 # r2 /\ pair \in Range(r1[2]) /\ pair \in Range(r2[2])


ScenarioRequest ==
    /\ LineageOk
    /\ loads = ScenarioGraph
    /\ req.table_name = "DEPOSIT_SUMMARY"
    /\ req.depth = 2

\* C9: DEPOSIT_SUMMARY at depth 2 on the graph CUSTOMER_MASTER ->
\* DEPOSIT_SUMMARY, TRANSACTION_DATA -> DEPOSIT_SUMMARY, DEPOSIT_SUMMARY ->
\* FINAL_REPORT: the nodes are exactly the four tables, DEPOSIT_SUMMARY being
\* the center, and the edges include the two inbound and the outbound edge.
C9_DepositSummaryScenario ==
    ScenarioRequest =>
        /\ NodeIds = {"DEPOSIT_SUMMARY", "CUSTOMER_MASTER", "TRANSACTION_DATA", "FINAL_REPORT"}
        /\ Len(resp.nodes) = 4
        /\ \A i \in 1..Len(resp.nodes) :
              (resp.nodes[i].type = "center") <=> (resp.nodes[i].id = "DEPOSIT_SUMMARY")
        /\ \A pair \in ScenarioGraph : EdgeCopies(pair) >= 1

C9_Witness == ScenarioRequest /\ Len(resp.edges) = 3

(***************************************************************************)
(* Validation and credential claims                                        *)
(***************************************************************************)
MutatingVerbs == {"CREATE", "MERGE", "DELETE", "REMOVE", "SET", "DROP", "DETACH"}

\* The upper-case form of a token of the model's vocabularies.
Upper(tok) ==
    CASE tok = "set" -> "SET"
      [] tok = "offset" -> "OFFSET"
      [] tok = "n" -> "N"
      [] tok = "prose" -> "PROSE"
      [] tok = "Within" -> "WITHIN"
      [] OTHER -> tok

\* The text holds a mutating verb as a whole word, whatever its case.
HasMutatingVerb(t) == \E i \in 1..Len(t) : Upper(t[i]) \in MutatingVerbs

QuestionOps ==
    {"ask_question", "generate_lineage_response", "execute_query", "run_test_query"}

Happened(e) == \E i \in 1..Len(events) : events[i].e = e

\* C1: a raw query text that holds create, merge, delete, remove, set, drop or
\* detach as a whole word (any case) is rejected, and a text that holds none
\* of them is allowed through to the executor.
C1_ReadOnlyVerdict ==
    req.op = "run_cypher" => (HasMutatingVerb(req.cypher) <=> ~Happened("run"))

\* C2: a raw query that validation rejects (such as DELETE n) opens no
\* session, runs no statement, and is answered with success = false.
C2_RejectedQueryNotExecuted ==
    (req.op = "run_cypher" /\ HasMutatingVerb(req.cypher))
        => /\ ~Happened("session_open")
           /\ ~Happened("run")
           /\ "success" \in DOMAIN resp
           /\ resp.success = FALSE

\* C3: on the question-answering paths (ask_question, execute_query,
\* generate_lineage_response) no statement that holds a mutating verb is run
\* against the graph store.
C3_GeneratedMutationNeverRun ==
    req.op \in QuestionOps =>
        \A i \in 1..Len(events) :
            events[i].e = "run" => ~HasMutatingVerb(events[i].q)

CredentialsMissingOutcome ==
    \/ "explanation" \in DOMAIN resp /\ resp.explanation = "cred_missing"
    \/ "error" \in DOMAIN resp /\ resp.error = "cred_missing"

\* C4: with no language-model credential configured, a question is answered
\* with the credentials-missing outcome, without a call to the model and
\* without a graph-store session.
C4_NoCredentialNoCalls ==
    (NotConfigured(cred) /\ req.op \in QuestionOps)
        => /\ CredentialsMissingOutcome
           /\ ~Happened("llm_call")
           /\ ~Happened("session_open")

(***************************************************************************)
(* Parser claims                                                           *)
(***************************************************************************)
\* C10: for a reply that holds both markers the split is at the query marker:
\* the explanation is the text before it without the explanation marker, the
\* query text is all the text after it (also with a marker occurring more
\* than once, or with the query marker first).
C10_SplitAtQueryMarker ==
    (parsed # NoResp /\ ExplanationMarker \in Range(content) /\ QueryMarker \in Range(content))
        => \E k \in 1..Len(content) :
              /\ content[k] = QueryMarker
              /\ parsed.explanation
                    = Strip(Remove(SubSeq(content, 1, k - 1), ExplanationMarker))
              /\ parsed.cypher_query = Strip(SubSeq(content, k + 1, Len(content)))

\* The keywords of the fallback parser, matched as a whole leading token.
ClauseKeywords == {"MATCH", "RETURN", "WHERE", "WITH", "CREATE", "MERGE"}

\* The line's stripped leading token is a keyword, whatever its case.
KeywordLine(line) ==
    LET l == Strip(line) IN l # <<>> /\ Upper(Head(l)) \in ClauseKeywords

GenericExplanation == <<"Generated Cypher query for your question.">>

\* C11: for a reply without markers that has a line whose stripped leading
\* token is a keyword (any case), the parser takes the fallback path: the
\* explanation is the fixed generic message and the query text runs from the
\* first such line to the end of the reply.
C11_FallbackStartsAtKeywordLine ==
    LET lines == Split(content, "\n")
    IN  (/\ parsed # NoResp
         /\ ExplanationMarker \notin Range(content)
         /\ QueryMarker \notin Range(content)
         /\ \E i \in 1..Len(lines) : KeywordLine(lines[i]))
        => LET k == CHOOSE i \in 1..Len(lines) :
                        KeywordLine(lines[i]) /\ \A j \in 1..(i - 1) : ~KeywordLine(lines[j])
           IN  /\ parsed.explanation = GenericExplanation
               /\ parsed.cypher_query = Strip(Join(SubSeq(lines, k, Len(lines)), "\n"))

(***************************************************************************)
(* Failure handling of the request pipeline                                *)
(***************************************************************************)
\* How many events of kind e the request caused.
CountEv(e) == Cardinality({i \in 1..Len(events) : events[i].e = e})

\* The statements the request ran, in order.
RunTexts == [i \in {j \in 1..Len(events) : events[j].e = "run"} |-> events[i].q]

\* The ask request whose reply went to the fallback parser, which found no
\* keyword line.
NoKeywordLineFound ==
    /\ req.op = "ask_question"
    /\ parsed # NoResp
    /\ parsed.path = "fallback"
    /\ CypherLines(Split(content, "\n")) = <<>>

SummarizerOps == {"generate_summary", "summarize_results"}

NoResultsMessage(op) ==
    IF op = "generate_summary" THEN "No results found for your query."
    ELSE "No results found for this query."

NotConfiguredMessage == "OpenAI API key not configured. Cannot generate summary."

\* C13: a summarizer called with an empty result returns its fixed "no
\* results" message, whatever the credential configuration, and makes no
\* call to the model.
C13_EmptyResultsFixedMessage ==
    (req.op \in SummarizerOps /\ req.results = 0)
        => /\ resp.summary = NoResultsMessage(req.op)
           /\ ~Happened("llm_call")

\* C13 (amended): a summarizer called with an empty result makes no call to
\* the model; the service's summarizer returns its "no results" message
\* whatever the credential, the UI's summarizer returns its "no results"
\* message when a credential is configured and the "not configured" message
\* when none is.  The same holds where the handlers call them: a successful
\* ask or Execute Query request with no records carries the "no results"
\* message, and only the synthesis (and SQL) calls went to the model.
C13_EmptyResultsNoModelCall ==
    /\ (req.op \in SummarizerOps /\ req.results = 0)
          => /\ ~Happened("llm_call")
             /\ resp.summary = IF req.op = "summarize_results" /\ NotConfigured(cred)
                               THEN NotConfiguredMessage
                               ELSE NoResultsMessage(req.op)
    /\ (req.op = "ask_question" /\ resp.status = 200 /\ resp.results = 0)
          => /\ resp.summary = NoResultsMessage("generate_summary")
             /\ CountEv("llm_call") = 2
    /\ (req.op = "execute_query" /\ resp.error = "none" /\ resp.records = 0)
          => /\ resp.summary = NoResultsMessage("summarize_results")
             /\ CountEv("llm_call") = 1

C13_Witness ==
    /\ req.op = "summarize_results"
    /\ req.results = 0
    /\ cred = "set"
    /\ resp.summary = "No results found for this query."

\* C14: without a credential the process still runs, and a summarizer (the
\* UI's and the service's) called with a non-empty result returns the fixed
\* "not configured" message without a call to the model.
C14_NoCredentialFixedMessage ==
    NotConfigured(cred)
        => /\ backend = "up"
           /\ (req.op \in SummarizerOps /\ req.results > 0)
                  => /\ resp.summary = NotConfiguredMessage
                     /\ ~Happened("llm_call")

\* The ask request whose query was synthesized, parsed non-empty and executed
\* without error.
AskExecuted ==
    /\ req.op = "ask_question"
    /\ env.schemaOk /\ env.llm = "ok" /\ env.storeOk
    /\ parsed.cypher_query # <<>>

\* C15: a failure of the summarization call does not fail the request.  An
\* ask request whose execution succeeded completes with the records and the
\* query, the summary being the error string when the call failed; the UI's
\* request likewise; a summarizer called on its own returns a string.
C15_SummaryFailureRecovered ==
    /\ AskExecuted
          => /\ resp.status = 200
             /\ resp.results = env.n
             /\ resp.cypher_query = parsed.cypher_query
             /\ (env.n > 0 /\ env.llmSum # "ok")
                    => resp.summary = "Summary generation failed: ..."
    /\ (req.op = "execute_query" /\ resp.error = "none" /\ resp.records > 0
        /\ env.llmSum # "ok")
          => /\ resp.summary = "Error generating summary: ..."
             /\ resp.records = env.n2
             /\ resp.cypher # <<>>
    /\ (req.op \in SummarizerOps /\ req.results > 0 /\ env.llmSum # "ok")
          => /\ resp.status = 200
             /\ resp.summary \in {"Summary generation failed: ...",
                                  "Error generating summary: ...", NotConfiguredMessage}

C15_Witness ==
    /\ AskExecuted
    /\ env.n > 0
    /\ env.llmSum = "error"
    /\ resp.status = 200
    /\ resp.results > 0

\* Sessions open after the first k events of the request.
OpenSessions(k) ==
    Cardinality({i \in 1..k : events[i].e = "session_open"})
    - Cardinality({i \in 1..k : events[i].e = "session_close"})

\* C16: every graph-store session a request opens is closed again, whether the
\* statement succeeded or failed: at most one session is open at a time, a
\* statement runs inside an open session, and none is open when the handler
\* returns.
C16_SessionsReleased ==
    /\ \A k \in 1..Len(events) :
          /\ OpenSessions(k) \in {0, 1}
          /\ events[k].e = "run" => OpenSessions(k) = 1
    /\ OpenSessions(Len(events)) = 0

\* The statement failed, in execute_cypher_query and in
\* generate_lineage_response, and the session was closed.
C16_Witness ==
    /\ \/ req.op = "run_cypher" /\ resp.status = 500
       \/ req.op = "generate_lineage_response" /\ resp.explanation = "exec_error"
    /\ Happened("run")
    /\ events[Len(events)].e \in {"session_close", "driver_close"}
    /\ CountEv("session_open") = 1

\* C17: a statement that fails gives no records and an error, even when the
\* store had yielded records before it failed (run_cypher and ask end as an
\* error response without results, execute_query returns an error and an
\* empty list); a statement that succeeds gives every record.
C17_FailedStatementNoRecords ==
    /\ (req.op = "run_cypher" /\ ~env.storeOk)
          => resp.status = 500 /\ "results" \notin DOMAIN resp
    /\ (req.op = "run_cypher" /\ env.storeOk)
          => resp.status = 200 /\ resp.results = env.n
    /\ (req.op = "ask_question" /\ env.schemaOk /\ env.llm = "ok"
        /\ parsed.cypher_query # <<>> /\ ~env.storeOk)
          => resp.status = 500 /\ "results" \notin DOMAIN resp
    /\ (req.op = "execute_query" /\ CountEv("run") = 2 /\ ~env.storeOk2)
          => resp.records = 0 /\ resp.error = "error_executing_query"
    /\ (req.op = "execute_query" /\ CountEv("run") = 2 /\ env.storeOk2)
          => resp.records = env.n2 /\ resp.error = "none"

\* The store failed after it had yielded a record.
C17_Witness ==
    /\ req.op = "run_cypher"
    /\ ~env.storeOk
    /\ env.n > 0
    /\ resp.status = 500
    /\ Happened("run")

AgentOps == {"generate_lineage_response", "run_test_query", "execute_query"}

\* The synthesis of an agent request failed: no credential, a non-success
\* status of the model, a time-out or another request exception.
AgentSynthesisFailed ==
    /\ req.op \in AgentOps
    /\ NotConfigured(cred) \/ env.llm \in {"bad_status", "exception"}

\* The failure text the agent returns in place of an explanation.
SynthesisFailureText == IF NotConfigured(cred) THEN "cred_missing" ELSE "request_failed"

\* C18: a failed synthesis ends the request.  The synthesizer returns the
\* failure as its explanation with an empty query and has called the model at
\* most once; its caller runs no statement, opens no session and asks for no
\* summary; the handler returns, so the next question can be taken.  On the
\* ask path a failed model call leaves the schema query as the only statement
\* run, with one model call and no summary.
C18_SynthesisFailureTerminal ==
    /\ AgentSynthesisFailed
          => /\ resp.cypher = <<>>
             /\ IF req.op = "execute_query"
                THEN resp.error = SynthesisFailureText /\ resp.summary = "none"
                ELSE resp.explanation = SynthesisFailureText
             /\ CountEv("llm_call") = IF NotConfigured(cred) THEN 0 ELSE 1
             /\ ~Happened("run")
             /\ ~Happened("session_open")
             /\ resp.status = 200
             /\ ENABLED AwaitRequest
    /\ (req.op = "ask_question" /\ env.schemaOk /\ env.llm # "ok")
          => /\ resp.status = 500
             /\ CountEv("llm_call") = 1
             /\ CountEv("run") = 1 /\ \A i \in DOMAIN RunTexts : RunTexts[i] = SchemaQuery
             /\ ENABLED AwaitRequest

C18_Witness ==
    /\ req.op = "run_test_query"
    /\ cred = "set"
    /\ env.llm = "bad_status"
    /\ resp.printed = "explanation"
    /\ Happened("llm_call")

\* The ask request whose synthesis (schema fetch, model call, parse) or
\* execution failed.
AskFailed ==
    /\ req.op = "ask_question"
    /\ \/ ~env.schemaOk
       \/ env.llm # "ok"
       \/ parsed.cypher_query = <<>>
       \/ ~env.storeOk

\* C19: an ask request whose synthesis or execution failed is answered with
\* an error response (status and detail) that carries none of the fields of a
\* success response.
C19_AskFailsWhole ==
    AskFailed
        => /\ resp.status = 500
           /\ DOMAIN resp = {"status", "detail"}
           /\ resp.detail \in {"query_execution_failed", "failed_to_generate"}

\* The generated query was run and the store failed.
C19_Witness ==
    /\ AskFailed
    /\ env.schemaOk /\ env.llm = "ok"
    /\ parsed.cypher_query # <<>>
    /\ CountEv("run") = 2
    /\ resp.status = 500

(***************************************************************************)
(* Administrative operations                                               *)
(***************************************************************************)
\* Letters, digits and the underscore.
AllowedChars ==
    {"a", "A", "s", "S", "_", "0", "1", "2", "3", "4", "5", "6", "7", "8", "9"}

AllowListed(label) == \A i \in 1..Len(label) : label[i] \in AllowedChars

\* The statements of an ingestion that hold a label derived from a file name,
\* and that label.
IsNodeQuery(q) ==
    Head(q) \in {"UNWIND $rows AS row MERGE (n:", "UNWIND $rows AS row CREATE (n:"}

InterpolatedLabel(q) == SubSeq(q, 2, Len(q) - 1)

\* C20: the label derived from the name of a JSON file is letters, digits and
\* underscores only in every statement ingest_json_files sends to the store
\* (a name that fails the allow-list reaches no statement).
C20_LabelsAllowListed ==
    req.op = "ingest_json_files"
        => \A i \in 1..Len(events) :
              (events[i].e = "run" /\ IsNodeQuery(events[i].q))
                  => AllowListed(InterpolatedLabel(events[i].q))

(***************************************************************************)
(* Order of the stages of a request                                        *)
(***************************************************************************)
\* The places in `events` where the request ran a generated query (any
\* statement but the schema query).
QueryRuns == {i \in 1..Len(events) : events[i].e = "run" /\ events[i].q # SchemaQuery}

ModelCalls == {i \in 1..Len(events) : events[i].e = "llm_call"}

\* C21: a question-answering request runs the generated query at most once
\* (a query that failed is not run again), after the synthesis call to the
\* model and before any later call to it, on the ask path, the agent path and
\* the Streamlit path.
C21_QueryRunAtMostOnce ==
    req.op \in QuestionOps
        => /\ Cardinality(QueryRuns) <= 1
           /\ \A i \in QueryRuns :
                 /\ \E j \in ModelCalls : j < i
                 /\ req.op = "ask_question"
                       => \E k \in 1..(i - 1) :
                             events[k].e = "run" /\ events[k].q = SchemaQuery

(***************************************************************************)
(* Lineage: direction, node types, closure of the edges                    *)
(***************************************************************************)
\* The tables reached from table_name by at most depth relationships all
\* followed downstream, or all followed upstream.
OneDirectionReach(table_name, depth) ==
    {r[1] : r \in OutwardPaths(table_name, <<>>, depth)}
    \cup {r[1] : r \in InwardPaths(table_name, <<>>, depth)}

\* C22: every node of a lineage response other than the center is reached
\* from table_name by at most depth LOADS_INTO relationships that are all
\* followed downstream or all followed upstream; a table reached only by a
\* path that mixes directions is not returned.
C22_OneDirectionPerPath ==
    LineageOk
        => \A id \in NodeIds \ {req.table_name} :
              id \in OneDirectionReach(req.table_name, req.depth)

(***************************************************************************)
(* Sessions, drivers and model calls                                       *)
(***************************************************************************)
\* C23: no graph-store session is open when the model is called: the session
\* opened before a model call is closed before the call, and the next one is
\* opened after it.
C23_NoSessionAcrossModelCall ==
    \A k \in 1..Len(events) : events[k].e = "llm_call" => OpenSessions(k) = 0

\* An ask request that fetched the schema, called the model three times and
\* executed the query.
C23_Witness ==
    /\ req.op = "ask_question"
    /\ resp.status = 200
    /\ CountEv("llm_call") = 3
    /\ CountEv("session_open") = 2

\* C25: every driver a request creates is closed when the request ends,
\* whether the statement succeeded or raised.
C25_DriversClosed ==
    req # NoReq => CountEv("driver_open") = CountEv("driver_close")

\* C28: generate_lineage_response (alone or under its callers) runs only the
\* stripped content of the model's reply; when the reply has success status
\* but no content, no statement is run against the store.
C28_OnlyReplyContentRun ==
    (req.op \in AgentOps /\ ~NotConfigured(cred))
        => /\ \A i \in DOMAIN RunTexts : RunTexts[i] = Strip(content)
           /\ env.llm = "no_content" => ~Happened("run")

\* The places of the response's node list that hold a node of the given type.
NodesOfType(type) == {i \in 1..Len(resp.nodes) : resp.nodes[i].type = type}

\* C26: a lineage response has exactly one node of type "center", its id is
\* the requested table_name, and every other node has type "related"; a path
\* that ends at the center table (a cycle) does not replace or retype it.
C26_OneCenterNode ==
    LineageOk
        => /\ Cardinality(NodesOfType("center")) = 1
           /\ \A i \in NodesOfType("center") : resp.nodes[i].id = req.table_name
           /\ \A i \in 1..Len(resp.nodes) :
                 resp.nodes[i].id # req.table_name => resp.nodes[i].type = "related"
           /\ NodesOfType("center") \cup NodesOfType("related") = 1..Len(resp.nodes)

\* A returned path ends at the center table itself.
C26_Witness ==
    /\ LineageOk
    /\ \E r \in LineageRows(req.table_name, req.depth) : r[1] = req.table_name
    /\ Len(resp.nodes) >= 2

\* C27: the source and the target of every edge of a lineage response are ids
\* of nodes of that response, for every graph and every accepted depth: the
\* tables in the middle of a path of several relationships are nodes too.
C27_EdgesWithinNodes ==
    LineageOk
        => \A i \in 1..Len(resp.edges) :
              resp.edges[i].source \in NodeIds /\ resp.edges[i].target \in NodeIds

\* An edge that does not touch the center: it lies on a path of two or more
\* relationships.
C27_Witness ==
    /\ LineageOk
    /\ \E i \in 1..Len(resp.edges) :
          /\ resp.edges[i].source # req.table_name
          /\ resp.edges[i].target # req.table_name
          /\ resp.edges[i].source # resp.edges[i].target

(***************************************************************************)
(* Requests handled at the same time                                       *)
(***************************************************************************)
\* The response the request of task t gets when it is handled alone, with
\* the store and the model behaving as they did for t.
SoloResponse(t) ==
    IF t.req.op = "ask_question"
    THEN AskResult(t.inp.schemaOk, t.inp.llm, t.inp.reply, t.inp.storeOk, t.inp.n,
                   t.inp.llmSql, t.inp.llmSum).resp
    ELSE IF t.req.op = "run_cypher"
    THEN RunCypherResult(t.req.cypher, t.inp.storeOk, t.inp.n).resp
    ELSE LineageResult(t.req.table_name, t.req.depth, t.inp.storeOk).resp

\* C24: however the handling of several requests (ask, raw query, lineage)
\* is interleaved, the response of each is the one it gets when handled
\* alone against the same store and the same model replies.
C24_ResponsesAsWhenAlone ==
    \A s \in DOMAIN tasks :
        tasks[s].pc = "done" => tasks[s].resp = SoloResponse(tasks[s])

\* An ask request completed while another one, with a different generated
\* query, was between its synthesis and its execution.
C24_Witness ==
    \E s, t \in DOMAIN tasks :
        /\ s # t
        /\ tasks[s].pc = "done"
        /\ tasks[s].req.op = "ask_question"
        /\ tasks[s].resp.status = 200
        /\ tasks[t].pc = "synthesized"
        /\ tasks[t].cypher_query # tasks[s].cypher_query

====
